---- MODULE Spec2Model ----
(***************************************************************************)
(* Model of janitor/mu.py: LambdaManager (publish / remove), the function  *)
(* spec PolicyLambda and the CloudWatchEventSource event binding, run      *)
(* against a model of the provider's function, alias, rule and target      *)
(* stores.  One action is one whole call of publish, remove, pause, resume *)
(* or the event source's remove; every remote call the handler makes is    *)
(* appended to the call log of that pass together with its result.         *)
(***************************************************************************)
EXTENDS Integers, Sequences, FiniteSets, TLC

VARIABLES
    fn,       \* the provider's record of the function, its versions included
    aliases,  \* the version each alias of the function points at
    rule,     \* the provider's record of the function's rule
    targets,  \* the Arns of the rule's targets, in the order they were put
    last,     \* the last call: its arguments, remote calls and error
    env,      \* what stays fixed over a run: the edited policy description,
              \* the caller's role and upload target
    ev,       \* the provider's rules by name, and the last call of an event
              \* source constructed with a prefix of its own
    arch      \* one PythonPackageArchive: its fields, the entries of its
              \* zip file, and its last call

vars == <<fn, aliases, rule, targets, last, env, ev, arch>>

(***************************************************************************)
(* Bounds of the model.                                                    *)
(***************************************************************************)
\* versions of the source tree packed into the archive
MaxSrc == 2
\* position of the remote call that is made to fail in a publish (0: none)
MaxFail == 10
\* position of the remote call that is made to fail in a remove, pause,
\* resume or unbind (0: none)
MaxOpFail == 3
\* successful creates of one archive object
MaxCreate == 2

(***************************************************************************)
(* Values.                                                                 *)
(***************************************************************************)
NoFn == [exists |-> FALSE]
NoRule == [exists |-> FALSE]
\* what an absent alias points at
NoAlias == [exists |-> FALSE]
\* a falsy alias, and the None that func.alias starts as
None == <<>>
\* a falsy role or s3_uri argument (None or the empty string)
Unset == ""
\* the version identifier "$LATEST"
LATEST == [exists |-> TRUE, latest |-> TRUE]
\* the identifier of a published version: versions are immutable, and one is
\* identified here by the code and configuration it froze
Published(snap) ==
    [exists |-> TRUE, latest |-> FALSE, code |-> snap.code, conf |-> snap.conf]
\* the provider's failures
NotFound == "ResourceNotFoundException"
Conflict == "ResourceConflictException"
HasTargets == "ValidationException"
BadRole == "InvalidParameterValueException"
\* an injected provider failure other than not-found
Throttled == "ThrottlingException"
ClientErrors == {NotFound, Conflict, HasTargets, BadRole, Throttled}

\* alias names, as character sequences ("live", "live2")
AliasNames == {<<"l">>, <<"l", "2">>}

\* ARN of the function "maid-<policy>" and of one of its aliases
FunctionArn == <<"f">>
AliasArn(alias) == FunctionArn \o <<":">> \o alias

\* Python's "a in b" for strings
Contains(b, a) ==
    \E i \in 0..(Len(b) - Len(a)) : SubSeq(b, i + 1, i + Len(a)) = a

(***************************************************************************)
(* Policy descriptions (policy.data).  A base policy and the variants the  *)
(* reconciler reacts to.                                                   *)
(***************************************************************************)
BasePolicy ==
    [type |-> "cloudtrail", role |-> "r", memory |-> 0, timeout |-> 60,
     schedule |-> "", sources |-> <<"ec2.amazonaws.com">>,
     events |-> <<"RunInstances">>]

\* the descriptions the policy may be edited to
Edits ==
    { [BasePolicy EXCEPT !.timeout = 120],
      [BasePolicy EXCEPT !.memory = 128],
      [BasePolicy EXCEPT !.role = ""],
      [BasePolicy EXCEPT !.type = "config-rule"],
      [BasePolicy EXCEPT !.type = "periodic", !.schedule = "rate(1 day)",
                         !.sources = <<>>, !.events = <<>>],
      \* a periodic mode without the schedule entry
      [BasePolicy EXCEPT !.type = "periodic",
                         !.sources = <<>>, !.events = <<>>],
      [BasePolicy EXCEPT !.type = "ec2-instance-state",
                         !.sources = <<>>, !.events = <<"pending">>] }

SrcVersions == 1..MaxSrc

(***************************************************************************)
(* PolicyLambda and LambdaFunction.get_config.                             *)
(***************************************************************************)
PolicyLambdaName == "maid-p"
PolicyLambdaTimeout == 60
DefaultMemory == 512

\* PolicyLambda.role: mode.get('role', '')
PolicyLambdaRole(policy) == policy.role

\* PolicyLambda.memory_size: mode.get('memory', 512); memory 0 stands for a
\* mode without the entry
PolicyLambdaMemory(policy) ==
    IF policy.memory = 0 THEN DefaultMemory ELSE policy.memory

get_config(policy) ==
    [FunctionName |-> PolicyLambdaName,
     MemorySize   |-> PolicyLambdaMemory(policy),
     Role         |-> PolicyLambdaRole(policy),
     Description  |-> "cloud-maid lambda policy",
     Runtime      |-> "python2.7",
     Handler      |-> "maid_policy.run",
     Timeout      |-> PolicyLambdaTimeout]

\* get_archive + get_checksum: the archive holds the source tree, config.json
\* (the whole policy description) and the generated handler; sha256 is
\* modelled as injective on that content.
get_checksum(policy, src) == [src |-> src, data |-> policy]

(***************************************************************************)
(* The context threaded through one call: the remote stores, the call log, *)
(* the error raised so far, and the locals of publish.                     *)
(***************************************************************************)
Log(ctx, op, res) ==
    [ctx EXCEPT !.calls = Append(@, [op |-> op, res |-> res])]

\* result of the next remote call: the provider's answer, unless this is the
\* call chosen to fail
Res(ctx, natural) ==
    IF Len(ctx.calls) + 1 = ctx.fail THEN Throttled ELSE natural

Raise(ctx, e) == [ctx EXCEPT !.err = e]

\* the Configuration the provider returns for a version of the function
Configuration(snap, ver) ==
    [FunctionName |-> snap.conf.FunctionName,
     MemorySize   |-> snap.conf.MemorySize,
     Role         |-> snap.conf.Role,
     Description  |-> snap.conf.Description,
     Runtime      |-> snap.conf.Runtime,
     Handler      |-> snap.conf.Handler,
     Timeout      |-> snap.conf.Timeout,
     CodeSha256   |-> snap.code,
     Version      |-> ver]

\* what a lookup through resource_exists returns for an absent resource
NoResult == [found |-> FALSE]

\* the code and configuration of version ver of the function
Snapshot(f, ver) ==
    IF ver = LATEST THEN [code |-> f.code, conf |-> f.conf]
    ELSE [code |-> ver.code, conf |-> ver.conf]

\* resource_exists reporting absence for every error
resource_exists_AnyError(ctx, res, value) ==
    IF res = "ok" THEN [ctx EXCEPT !.ret = value]
    ELSE [ctx EXCEPT !.ret = NoResult]

\* resource_exists(op, ...): absence only for the not-found error
resource_exists(ctx, res, value) ==
    IF res = "ok" THEN [ctx EXCEPT !.ret = value]
    ELSE IF res = NotFound THEN [ctx EXCEPT !.ret = NoResult]
    ELSE Raise(ctx, res)

(***************************************************************************)
(* LambdaManager.                                                          *)
(***************************************************************************)
\* LambdaManager.get(func_name, qualifier): get_function, by name and, when
\* a qualifier is given, by alias
get(ctx, qualifier) ==
    LET natural == IF ~ctx.fn.exists THEN NotFound
                   ELSE IF qualifier # None /\ ctx.aliases[qualifier] = NoAlias
                        THEN NotFound ELSE "ok"
        res == Res(ctx, natural)
        ver == IF qualifier = None THEN LATEST ELSE ctx.aliases[qualifier]
        value == IF res = "ok"
                 THEN [found |-> TRUE,
                       Configuration |->
                           Configuration(Snapshot(ctx.fn, ver), ver)]
                 ELSE NoResult
    IN  resource_exists(Log(ctx, "get_function", res), res, value)

\* LambdaManager._upload_func: the archive goes to the upload target
_upload_func(ctx) ==
    LET res == Res(ctx, "ok")
        c == Log(ctx, "upload_file", res)
    IN  IF res = "ok" THEN c ELSE Raise(c, res)

\* client.update_function_code(FunctionName, Publish=True, code): new code
\* in $LATEST, published as a new version with $LATEST's configuration
update_function_code(ctx, sha) ==
    LET res == Res(ctx, IF ctx.fn.exists THEN "ok" ELSE NotFound)
        c == Log(ctx, "update_function_code", res)
        snap == [code |-> sha, conf |-> ctx.fn.conf]
    IN  IF res = "ok"
        THEN [c EXCEPT !.fn.code = sha,
                       !.published = Published(snap),
                       !.result = Configuration(snap, Published(snap))]
        ELSE Raise(c, res)

\* client.update_function_configuration(**config): changes $LATEST only; the
\* provider refuses an empty Role
update_function_configuration(ctx, conf) ==
    LET res == Res(ctx, IF ~ctx.fn.exists THEN NotFound
                        ELSE IF conf.Role = Unset THEN BadRole ELSE "ok")
        c == Log(ctx, "update_function_configuration", res)
        snap == [code |-> ctx.fn.code, conf |-> conf]
    IN  IF res = "ok"
        THEN [c EXCEPT !.fn.conf = conf,
                       !.result = Configuration(snap, LATEST)]
        ELSE Raise(c, res)

\* client.create_function(**config, Publish=True, Code=code): refused when
\* the function exists, or for an empty Role
create_function(ctx, conf, sha) ==
    LET res == Res(ctx, IF ctx.fn.exists THEN Conflict
                        ELSE IF conf.Role = Unset THEN BadRole ELSE "ok")
        c == Log(ctx, "create_function", res)
        snap == [code |-> sha, conf |-> conf]
    IN  IF res = "ok"
        THEN [c EXCEPT !.fn = [exists |-> TRUE, code |-> sha, conf |-> conf],
                       !.published = Published(snap),
                       !.result = Configuration(snap, Published(snap))]
        ELSE Raise(c, res)

\* LambdaManager.delta_function(lambda_func, func)
delta_function(lambda_func, conf) ==
    \E k \in DOMAIN conf : conf[k] # lambda_func.Configuration[k]

\* UpdateFunction with the configuration compared only when the code is
\* current
UpdateFunction_ElseConfig(ctx, policy, src) ==
    LET lfunc == ctx.ret
        c0 == [ctx EXCEPT !.result = lfunc.Configuration]
    IN  IF get_checksum(policy, src) # lfunc.Configuration.CodeSha256
        THEN update_function_code(c0, get_checksum(policy, src))
        ELSE IF delta_function(lfunc, get_config(policy))
             THEN update_function_configuration(c0, get_config(policy))
             ELSE c0

\* the update branch of _create_or_update (lfunc found)
UpdateFunction(ctx, policy, src) ==
    LET lfunc == ctx.ret
        c0 == [ctx EXCEPT !.result = lfunc.Configuration]
        c1 == IF get_checksum(policy, src) # lfunc.Configuration.CodeSha256
              THEN update_function_code(c0, get_checksum(policy, src))
              ELSE c0
    IN  IF c1.err # "none" THEN c1
        ELSE IF delta_function(lfunc, get_config(policy))
             THEN update_function_configuration(c1, get_config(policy))
             ELSE c1

\* LambdaManager._create_or_update(func, role, s3_uri, qualifier)
_create_or_update(ctx, policy, src, role, s3_uri, qualifier) ==
    LET r == IF PolicyLambdaRole(policy) # Unset THEN PolicyLambdaRole(policy)
             ELSE role
        c1 == get(ctx, qualifier)
        c2 == IF s3_uri # Unset THEN _upload_func(c1) ELSE c1
    IN  IF r = Unset THEN Raise(ctx, "AssertionError")
        ELSE IF c1.err # "none" THEN c1
        ELSE IF c2.err # "none" THEN c2
        ELSE IF c1.ret.found
             THEN UpdateFunction([c2 EXCEPT !.ret = c1.ret], policy, src)
             ELSE create_function(c2, get_config(policy),
                                  get_checksum(policy, src))

\* client.create_alias / client.update_alias
put_alias(ctx, op, alias, func_version) ==
    LET natural == IF ~ctx.fn.exists THEN NotFound
                   ELSE IF op = "create_alias" /\ ctx.aliases[alias] # NoAlias
                        THEN Conflict
                   ELSE IF op = "update_alias" /\ ctx.aliases[alias] = NoAlias
                        THEN NotFound
                   ELSE "ok"
        res == Res(ctx, natural)
        c == Log(ctx, op, res)
    IN  IF res = "ok"
        THEN [c EXCEPT !.aliases[alias] = func_version,
                       !.funcAlias = AliasArn(alias)]
        ELSE Raise(c, res)

\* publish_alias updating every alias it finds
publish_alias_AlwaysUpdate(ctx, alias) ==
    LET func_version == ctx.result.Version
        natural == IF ctx.fn.exists /\ ctx.aliases[alias] # NoAlias
                   THEN "ok" ELSE NotFound
        res == Res(ctx, natural)
        value == IF res = "ok"
                 THEN [found |-> TRUE, Name |-> alias,
                       FunctionVersion |-> ctx.aliases[alias]]
                 ELSE NoResult
        c == resource_exists(Log(ctx, "get_alias", res), res, value)
    IN  IF c.err # "none" THEN c
        ELSE IF ~c.ret.found THEN put_alias(c, "create_alias", alias,
                                            func_version)
        ELSE put_alias(c, "update_alias", alias, func_version)

\* LambdaManager.publish_alias(func_data, alias), alias given
publish_alias(ctx, alias) ==
    LET func_version == ctx.result.Version
        natural == IF ctx.fn.exists /\ ctx.aliases[alias] # NoAlias
                   THEN "ok" ELSE NotFound
        res == Res(ctx, natural)
        value == IF res = "ok"
                 THEN [found |-> TRUE, Name |-> alias,
                       FunctionVersion |-> ctx.aliases[alias]]
                 ELSE NoResult
        c == resource_exists(Log(ctx, "get_alias", res), res, value)
    IN  IF c.err # "none" THEN c
        ELSE IF ~c.ret.found THEN put_alias(c, "create_alias", alias,
                                            func_version)
        ELSE IF c.ret.FunctionVersion = func_version /\ c.ret.Name = alias
             THEN [c EXCEPT !.funcAlias = AliasArn(alias)]
        ELSE put_alias(c, "update_alias", alias, func_version)

(***************************************************************************)
(* CloudWatchEventSource.  The rule of the function is named after it      *)
(* (func.name, which carries the source's prefix "maid-").                 *)
(***************************************************************************)
NoPattern == [source |-> <<>>, detailType |-> <<>>, detail |-> <<>>]

ASG_EVENT_MAPPING(e) ==
    CASE e = "launch-success" -> "EC2 Instance Launch Successful"
      [] e = "launch-failure" -> "EC2 Instance Launch Unsuccessful"
      [] e = "terminate-success" -> "EC2 Instance Terminate Successful"
      [] e = "terminate-failure" -> "EC2 Instance Terminate Unsuccessful"
      [] OTHER -> e

KnownTypes ==
    {"cloudtrail", "ec2-instance-state", "asg-instance-state", "periodic"}

\* CloudWatchEventSource.render_event_pattern: the payload that is dumped as
\* JSON (NoPattern: the empty payload, for which None is returned).  Raises
\* ValueError for an unknown type.
render_event_pattern(data) ==
    CASE data.type = "cloudtrail" ->
            [source |-> <<>>,
             detailType |-> <<"AWS API Call via CloudTrail">>,
             detail |-> <<<<"eventSource", data.sources>>,
                          <<"eventName", data.events>>>>]
      [] data.type = "ec2-instance-state" ->
            [source |-> <<"aws.ec2">>,
             detailType |-> <<"EC2 Instance State-change Notifications">>,
             detail |-> <<<<"state", data.events>>>>]
      [] data.type = "asg-instance-state" ->
            [source |-> <<"aws.autoscaling">>,
             detailType |-> [i \in 1..Len(data.events) |->
                                ASG_EVENT_MAPPING(data.events[i])],
             detail |-> <<>>]
      [] OTHER -> NoPattern

\* delta comparing the State alone
delta_StateOnly(src, tgt) == src.State # tgt.State

\* CloudWatchEventSource.delta(src, tgt)
delta(src, tgt) ==
    \E k \in {"State", "EventPattern", "ScheduleExpression"} : src[k] # tgt[k]

NoTrigger == "ValidationException"

\* client.put_rule(**params): the rule becomes what params say; refused when
\* params carry neither an EventPattern nor a ScheduleExpression
put_rule(ctx, params) ==
    LET res == Res(ctx, IF params.EventPattern = NoPattern
                           /\ params.ScheduleExpression = ""
                        THEN NoTrigger ELSE "ok")
        c == Log(ctx, "put_rule", res)
    IN  IF res = "ok"
        THEN [c EXCEPT !.rule = [exists |-> TRUE, State |-> params.State,
                                 EventPattern |-> params.EventPattern,
                                 ScheduleExpression |->
                                     params.ScheduleExpression]]
        ELSE Raise(c, res)

\* CloudWatchEventSource.get(rule_name): describe_rule
get_rule(ctx) ==
    LET res == Res(ctx, IF ctx.rule.exists THEN "ok" ELSE NotFound)
        value == IF res = "ok"
                 THEN [found |-> TRUE, State |-> ctx.rule.State,
                       EventPattern |-> ctx.rule.EventPattern,
                       ScheduleExpression |-> ctx.rule.ScheduleExpression]
                 ELSE NoResult
    IN  resource_exists(Log(ctx, "describe_rule", res), res, value)

\* AddTarget putting a target whatever the rule's targets are
AddTarget_AlwaysPut(ctx) ==
    LET res == Res(ctx, IF ctx.rule.exists THEN "ok" ELSE NotFound)
        c == Log(ctx, "list_targets_by_rule", res)
        pres == IF c.funcAlias = None THEN "ParamValidationError"
                ELSE Res(c, "ok")
        p == Log(c, "put_targets", pres)
    IN  IF res # "ok" THEN Raise(c, res)
        ELSE IF pres = "ok"
             THEN [p EXCEPT !.targets = Append(@, c.funcAlias),
                            !.added = TRUE]
        ELSE Raise(p, pres)

\* the target part of CloudWatchEventSource.add: list_targets_by_rule, the
\* search for func.alias among the targets' Arns, put_targets
AddTarget(ctx) ==
    LET res == Res(ctx, IF ctx.rule.exists THEN "ok" ELSE NotFound)
        c == Log(ctx, "list_targets_by_rule", res)
        found == \E i \in 1..Len(c.targets) :
                    Contains(c.targets[i], c.funcAlias)
        \* a None Arn is rejected by the client's parameter validation
        pres == IF c.funcAlias = None THEN "ParamValidationError"
                ELSE Res(c, "ok")
        p == Log(c, "put_targets", pres)
    IN  IF res # "ok" THEN Raise(c, res)
        \* None in t['Arn'] raises TypeError
        ELSE IF c.funcAlias = None /\ Len(c.targets) > 0
             THEN Raise(c, "TypeError")
        ELSE IF found THEN [c EXCEPT !.added = FALSE]
        ELSE IF pres = "ok"
             THEN [p EXCEPT !.targets = Append(@, c.funcAlias),
                            !.added = TRUE]
        ELSE Raise(p, pres)

\* the params add builds for put_rule (NoPattern, "": the key is left out)
rule_params(data) ==
    [State |-> "ENABLED", EventPattern |-> render_event_pattern(data),
     ScheduleExpression |-> data.schedule]

\* CloudWatchEventSource.add(func)
add(ctx, data) ==
    LET params == rule_params(data)
        c1 == get_rule(ctx)
        c2 == IF c1.ret.found /\ delta(c1.ret, params) THEN put_rule(c1, params)
              ELSE IF ~c1.ret.found THEN put_rule(c1, params)
              ELSE c1
    IN  IF data.type \notin KnownTypes THEN Raise(ctx, "ValueError")
        ELSE IF c1.err # "none" THEN c1
        ELSE IF c2.err # "none" THEN c2
        ELSE AddTarget(c2)

\* client.disable_rule / client.enable_rule inside try .. except ClientError
SetRuleState(ctx, op, state) ==
    LET res == Res(ctx, IF ctx.rule.exists THEN "ok" ELSE NotFound)
        c == Log(ctx, op, res)
    IN  IF res = "ok" THEN [c EXCEPT !.rule.State = state]
        ELSE IF res \in ClientErrors THEN c
        ELSE Raise(c, res)

\* CloudWatchEventSource.pause(func)
pause(ctx) == SetRuleState(ctx, "disable_rule", "DISABLED")

\* CloudWatchEventSource.resume(func)
resume(ctx) == SetRuleState(ctx, "enable_rule", "ENABLED")

\* client.delete_rule(Name): refused while the rule has targets
delete_rule(ctx) ==
    LET natural == IF ~ctx.rule.exists THEN "ok"
                   ELSE IF Len(ctx.targets) > 0 THEN HasTargets ELSE "ok"
        res == Res(ctx, natural)
        c == Log(ctx, "delete_rule", res)
    IN  IF res = "ok" THEN [c EXCEPT !.rule = NoRule] ELSE Raise(c, res)

\* remove_event deleting the rule whatever the lookup found
remove_event_NoCheck(ctx) ==
    LET c == get_rule(ctx)
    IN  IF c.err # "none" THEN c ELSE delete_rule(c)

\* CloudWatchEventSource.remove(func)
remove_event(ctx) ==
    LET c == get_rule(ctx)
    IN  IF c.err # "none" THEN c
        ELSE IF c.ret.found THEN delete_rule(c)
        ELSE c

\* client.delete_function(FunctionName): the function goes with its versions
\* and aliases
delete_function(ctx) ==
    LET res == Res(ctx, IF ctx.fn.exists THEN "ok" ELSE NotFound)
        c == Log(ctx, "delete_function", res)
    IN  IF res = "ok"
        THEN [c EXCEPT !.fn = NoFn,
                       !.aliases = [a \in AliasNames |-> NoAlias]]
        ELSE Raise(c, res)

(***************************************************************************)
(* LambdaManager.publish and LambdaManager.remove.                         *)
(***************************************************************************)
\* publish binding the event source before the function is reconciled
publish_BindFirst(ctx, policy, src, alias, role, s3_uri) ==
    LET c0 == add(ctx, policy)
        c1 == _create_or_update(c0, policy, src, role, s3_uri, alias)
    IN  IF c0.err # "none" THEN c0
        ELSE IF c1.err # "none" THEN c1
        ELSE IF alias # None THEN publish_alias(c1, alias) ELSE c1

\* LambdaManager.publish(func, alias, role, s3_uri); func.alias starts None
publish(ctx, policy, src, alias, role, s3_uri) ==
    LET c1 == _create_or_update(ctx, policy, src, role, s3_uri, alias)
        c2 == IF alias # None THEN publish_alias(c1, alias) ELSE c1
    IN  IF c1.err # "none" THEN c1
        ELSE IF c2.err # "none" THEN c2
        ELSE add(c2, policy)

\* LambdaManager.remove(func)
remove(ctx) ==
    LET c == remove_event(ctx)
    IN  IF c.err # "none" THEN c ELSE delete_function(c)

(***************************************************************************)
(* The state machine.                                                      *)
(***************************************************************************)
\* the context at the start of a call that will see its fail-th remote call
\* fail
Begin(fail) ==
    [fn |-> fn, aliases |-> aliases, rule |-> rule, targets |-> targets,
     calls |-> <<>>, err |-> "none", fail |-> fail,
     ret |-> NoResult, result |-> NoResult, funcAlias |-> None,
     added |-> FALSE, published |-> NoFn]

Commit(ctx) ==
    /\ fn' = ctx.fn
    /\ aliases' = ctx.aliases
    /\ rule' = ctx.rule
    /\ targets' = ctx.targets
    /\ UNCHANGED <<env, ev, arch>>

NoPass ==
    [op |-> "init", policy |-> BasePolicy, src |-> 1, alias |-> None,
     role |-> Unset, s3_uri |-> Unset, calls |-> <<>>, err |-> "none",
     again |-> FALSE, timeoutOnly |-> FALSE, retry |-> FALSE,
     funcAlias |-> None, added |-> FALSE,
     existed |-> FALSE, codeDiffers |-> FALSE, confDiffers |-> FALSE,
     published |-> NoFn, version |-> NoFn, aliasBefore |-> NoAlias,
     ruleBefore |-> NoRule]

Roles == {Unset, "r"}
S3Uris == {Unset, "s3://bucket/prefix"}
Fails == 0..MaxFail
OpFails == 0..MaxOpFail

\* rule prefixes and function names, as sequences of name parts
Prefixes == {<<"maid-">>, <<"cwe-">>}
Owners == {<<"maid-", "p">>, <<"p">>}
RuleNames == Owners \cup {pre \o o : pre \in Prefixes, o \in Owners}

\* the target identifiers a caller may bind: the function's Arn and the Arns
\* of its aliases
Arns == {FunctionArn} \cup {AliasArn(a) : a \in AliasNames}

NoEv ==
    [rules |-> [n \in RuleNames |-> "absent"],
     targeted |-> [n \in RuleNames |-> {}],
     op |-> "init", prefix |-> <<"maid-">>, owner |-> <<"p">>,
     arn |-> FunctionArn, calls |-> <<>>, err |-> "none"]

\* the files a create walks: one of the source tree, one of the library tree
TreeFiles == {"janitor/mu.py", "site-packages/lib.py"}
Injected == {"config.json", "maid_policy.py"}
\* the permission bits a host file can have
HostModes == {"0644", "0600"}
NoEntry == [present |-> FALSE]

\* PythonPackageArchive.__init__
NewArchive ==
    [_temp_archive_file |-> FALSE, _zip_file |-> "None", _closed |-> FALSE,
     entries |-> [n \in TreeFiles \cup Injected |-> NoEntry],
     creates |-> 0,
     op |-> "init", err |-> "none", type |-> <<>>,
     pre |-> [_temp_archive_file |-> FALSE, _zip_file |-> "None"]]

Empty ==
    /\ ev = NoEv
    /\ arch = NewArchive
    /\ fn = NoFn
    /\ aliases = [a \in AliasNames |-> NoAlias]
    /\ rule = NoRule
    /\ targets = <<>>
    /\ last = NoPass

\* nothing is deployed yet.  The role argument is read only when the policy
\* names no role, so it is varied only for the edit that drops the role.
Init ==
    /\ env \in [edited : Edits, role : Roles, s3_uri : S3Uris]
    /\ env.role # Unset => PolicyLambdaRole(env.edited) = Unset
    /\ Empty

\* the edit that changes code and configuration together, no upload target
InitFail ==
    /\ env = [edited |-> [BasePolicy EXCEPT !.memory = 128], role |-> Unset,
              s3_uri |-> Unset]
    /\ Empty

\* the pass about to run repeats the last one, which was a successful publish
Repeats(policy, src, alias, role, s3_uri) ==
    /\ last.op = "publish" /\ last.err = "none"
    /\ last.policy = policy /\ last.src = src /\ last.alias = alias
    /\ last.role = role /\ last.s3_uri = s3_uri

\* the pass about to run follows a successful publish and differs from it
\* only in the timeout of the policy's mode
TimeoutOnly(policy, src, alias, role, s3_uri) ==
    /\ last.op = "publish" /\ last.err = "none"
    /\ last.policy # policy
    /\ last.policy = [policy EXCEPT !.timeout = last.policy.timeout]
    /\ last.src = src /\ last.alias = alias
    /\ last.role = role /\ last.s3_uri = s3_uri

Mutations ==
    {"upload_file", "create_function", "update_function_code",
     "update_function_configuration", "create_alias", "update_alias",
     "put_rule", "put_targets", "delete_rule", "delete_function",
     "disable_rule", "enable_rule"}

Issued(calls, ops) == \E i \in 1..Len(calls) : calls[i].op \in ops

Done(calls, ops) ==
    \E i \in 1..Len(calls) : calls[i].op \in ops /\ calls[i].res = "ok"

\* the pass about to run repeats the last one, which a provider failure
\* aborted after it had changed something
Retries(policy, src, alias, role, s3_uri) ==
    /\ last.op = "publish" /\ last.err = Throttled
    /\ Done(last.calls, Mutations)
    /\ last.policy = policy /\ last.src = src /\ last.alias = alias
    /\ last.role = role /\ last.s3_uri = s3_uri

\* the record the function lookup of a publish returns
Lfunc(alias, fail) == get(Begin(fail), alias).ret

Publish(policy, src, alias, role, s3_uri, fail) ==
    \E ctx \in {publish(Begin(fail), policy, src, alias, role, s3_uri)},
       lfunc \in {Lfunc(alias, fail)} :
        /\ Commit(ctx)
        /\ last' = [op |-> "publish", policy |-> policy, src |-> src,
                    alias |-> alias, role |-> role, s3_uri |-> s3_uri,
                    calls |-> ctx.calls, err |-> ctx.err,
                    again |-> Repeats(policy, src, alias, role, s3_uri),
                    timeoutOnly |->
                        TimeoutOnly(policy, src, alias, role, s3_uri),
                    retry |-> Retries(policy, src, alias, role, s3_uri),
                    funcAlias |-> ctx.funcAlias, added |-> ctx.added,
                    existed |-> fn.exists,
                    codeDiffers |->
                        /\ lfunc.found
                        /\ get_checksum(policy, src)
                               # lfunc.Configuration.CodeSha256,
                    confDiffers |->
                        /\ lfunc.found
                        /\ delta_function(lfunc, get_config(policy)),
                    published |-> ctx.published,
                    version |-> IF ctx.result = NoResult THEN NoFn
                                ELSE ctx.result.Version,
                    aliasBefore |-> IF alias = None THEN NoAlias
                                    ELSE aliases[alias],
                    ruleBefore |-> rule]

Other(op, ctx) ==
    \E c \in {ctx} :
        /\ Commit(c)
        /\ last' = [NoPass EXCEPT !.op = op, !.calls = c.calls,
                                  !.err = c.err]

Remove(fail) == Other("remove", remove(Begin(fail)))

Pause(fail) == Other("pause", pause(Begin(fail)))

Resume(fail) == Other("resume", resume(Begin(fail)))

Unbind(fail) == Other("unbind", remove_event(Begin(fail)))

\* one call of publish, remove, pause, resume or the event source's remove;
\* S: the source trees and A: the alias arguments of publish, PF: the remote
\* calls of publish that may fail, F: those of the others
NextOver(S, A, PF, F) ==
    \/ \E policy \in {BasePolicy, env.edited}, src \in S, alias \in A,
          fail \in PF :
            Publish(policy, src, alias, env.role, env.s3_uri, fail)
    \/ \E fail \in F : Remove(fail)
    \/ \E fail \in F : Pause(fail)
    \/ \E fail \in F : Resume(fail)
    \/ \E fail \in F : Unbind(fail)

\* every remote call of publish succeeds unless the provider refuses it
Next == NextOver(SrcVersions, AliasNames \cup {None}, {0}, OpFails)

\* any one remote call of a publish may fail; one source tree, one alias
NextFail == NextOver({1}, {None, <<"l">>}, Fails, OpFails)

\* any one remote call of a publish may fail; every publish names the alias
NextDrift == NextOver(SrcVersions, {<<"l">>}, Fails, {0})

(***************************************************************************)
(* CloudWatchEventSource constructed with a prefix of its own, on functions *)
(* of any name: the rules are kept by name, and each remote call is logged  *)
(* with the rule name it carries.                                          *)
(***************************************************************************)
StartsWith(str, pre) ==
    Len(str) >= Len(pre) /\ SubSeq(str, 1, Len(pre)) = pre

\* CloudWatchEventSource._make_notification_id(function_name)
_make_notification_id(prefix, function_name) ==
    IF ~StartsWith(function_name, prefix) THEN prefix \o function_name
    ELSE function_name

Named(e, op, name, res) ==
    [e EXCEPT !.calls = Append(@, [op |-> op, name |-> name, res |-> res])]

\* CloudWatchEventSource.get(rule_name) by name
named_get(e, prefix, rule_name) ==
    LET name == _make_notification_id(prefix, rule_name)
    IN  Named(e, "describe_rule", name,
              IF e.rules[name] # "absent" THEN "ok" ELSE NotFound)

\* CloudWatchEventSource.add(func) by name, func.alias being arn; the desired
\* rule differs from the existing one when that one is disabled
named_add(e, prefix, name, arn) ==
    LET c1 == named_get(e, prefix, name)
        found == c1.calls[1].res = "ok"
        state == e.rules[_make_notification_id(prefix, name)]
        c2 == IF (found /\ state # "ENABLED") \/ ~found
              THEN [Named(c1, "put_rule", name, "ok")
                        EXCEPT !.rules[name] = "ENABLED"]
              ELSE c1
        lres == IF c2.rules[name] # "absent" THEN "ok" ELSE NotFound
        c3 == Named(c2, "list_targets_by_rule", name, lres)
    IN  IF lres # "ok" THEN [c3 EXCEPT !.err = lres]
        \* if func.alias in t['Arn']
        ELSE IF \E t \in c3.targeted[name] : Contains(t, arn) THEN c3
        ELSE [Named(c3, "put_targets", name, "ok")
                  EXCEPT !.targeted[name] = @ \cup {arn}]

\* CloudWatchEventSource.remove(func) by name
named_remove(e, prefix, name) ==
    LET c1 == named_get(e, prefix, name)
        dres == IF c1.targeted[name] # {} THEN HasTargets ELSE "ok"
        c2 == Named(c1, "delete_rule", name, dres)
    IN  IF c1.calls[1].res # "ok" THEN c1
        ELSE IF dres = "ok" THEN [c2 EXCEPT !.rules[name] = "absent"]
        ELSE [c2 EXCEPT !.err = dres]

\* CloudWatchEventSource.pause(func) / resume(func) by name
named_set_state(e, op, name, state) ==
    LET res == IF e.rules[name] # "absent" THEN "ok" ELSE NotFound
        c == Named(e, op, name, res)
    IN  IF res = "ok" THEN [c EXCEPT !.rules[name] = state] ELSE c

EvBegin(op, prefix, owner) ==
    [ev EXCEPT !.op = op, !.prefix = prefix, !.owner = owner,
               !.calls = <<>>, !.err = "none"]

EvAdd(prefix, owner, arn) ==
    /\ ev' = named_add([EvBegin("add", prefix, owner) EXCEPT !.arn = arn],
                       prefix, owner, arn)
    /\ UNCHANGED <<fn, aliases, rule, targets, last, env, arch>>

EvRemove(prefix, owner) ==
    /\ ev' = named_remove(EvBegin("remove", prefix, owner), prefix, owner)
    /\ UNCHANGED <<fn, aliases, rule, targets, last, env, arch>>

EvPause(prefix, owner) ==
    /\ ev' = named_set_state(EvBegin("pause", prefix, owner), "disable_rule",
                             owner, "DISABLED")
    /\ UNCHANGED <<fn, aliases, rule, targets, last, env, arch>>

EvResume(prefix, owner) ==
    /\ ev' = named_set_state(EvBegin("resume", prefix, owner), "enable_rule",
                             owner, "ENABLED")
    /\ UNCHANGED <<fn, aliases, rule, targets, last, env, arch>>

NextRules ==
    \/ \E prefix \in Prefixes, owner \in Owners, arn \in Arns :
            EvAdd(prefix, owner, arn)
    \/ \E prefix \in Prefixes, owner \in Owners : EvRemove(prefix, owner)
    \/ \E prefix \in Prefixes, owner \in Owners : EvPause(prefix, owner)
    \/ \E prefix \in Prefixes, owner \in Owners : EvResume(prefix, owner)

(***************************************************************************)
(* PythonPackageArchive and PolicyLambda.get_archive.                      *)
(***************************************************************************)
\* the mode types, as sequences of name parts
ModeTypes ==
    {<<"cloudtrail">>, <<"periodic">>,
     <<"ec2", "-", "instance", "-", "state">>,
     <<"asg", "-", "instance", "-", "state">>}

\* the *_handle functions the module defines
Handlers ==
    {<<"periodic", "_", "handle">>,
     <<"ec2", "_", "instance", "_", "state", "_", "handle">>,
     <<"cloudtrail", "_", "handle">>}

\* str.replace('-', '_')
Replace(str) == [i \in 1..Len(str) |-> IF str[i] = "-" THEN "_" ELSE str[i]]

\* PolicyHandlerTemplate % name: the function run forwards to
PolicyHandlerTemplate(name) == name \o <<"_", "handle">>

\* zinfo(fname): the entry's permission bits
zinfo(fname) == [name |-> fname, external_attr |-> "0644"]

ArchRaise(a, e) == [a EXCEPT !.err = e]

\* ZipFile.write(path, arcname): the entry keeps the host file's mode
zip_write(a, arcname, mode) ==
    [a EXCEPT !.entries[arcname] =
        [present |-> TRUE, external_attr |-> mode, body |-> <<>>]]

\* PythonPackageArchive.create(); modes: the host modes of the files walked
archive_create(a, modes) ==
    IF a._temp_archive_file THEN ArchRaise(a, "AssertionError")
    ELSE LET c == [a EXCEPT !._temp_archive_file = TRUE,
                            !._zip_file = "open",
                            !.entries = NewArchive.entries,
                            !.creates = @ + 1]
             s == zip_write(c, "janitor/mu.py", modes[1])
         IN  zip_write(s, "site-packages/lib.py", modes[2])

\* PythonPackageArchive.add_contents(dest, contents)
add_contents(a, dest, contents) ==
    IF a._closed THEN ArchRaise(a, "AssertionError")
    ELSE IF a._zip_file = "None" THEN ArchRaise(a, "AttributeError")
    ELSE [a EXCEPT !.entries[dest.name] =
            [present |-> TRUE, external_attr |-> dest.external_attr,
             body |-> contents]]

\* PythonPackageArchive.close()
archive_close(a) ==
    LET c == [a EXCEPT !._closed = TRUE]
        z == [c EXCEPT !._zip_file = "closed"]
    IN  IF a._zip_file = "None" THEN ArchRaise(c, "AttributeError")
        ELSE IF ~a._temp_archive_file THEN ArchRaise(z, "AttributeError")
        ELSE z

\* PythonPackageArchive.remove()
archive_remove(a) ==
    IF a._temp_archive_file THEN [a EXCEPT !._temp_archive_file = FALSE]
    ELSE a

\* PythonPackageArchive.size
size(a) ==
    IF ~a._closed THEN ArchRaise(a, "ValueError")
    ELSE IF ~a._temp_archive_file THEN ArchRaise(a, "AttributeError")
    ELSE a

\* PythonPackageArchive.get_checksum() / get_bytes()
archive_read(a) ==
    IF ~a._closed THEN ArchRaise(a, "AssertionError")
    ELSE IF ~a._temp_archive_file THEN ArchRaise(a, "AttributeError")
    ELSE a

\* PolicyLambda.get_archive()
get_archive(a, type, modes) ==
    LET c1 == archive_create(a, modes)
        c2 == add_contents(c1, zinfo("config.json"), <<"policies">>)
        c3 == add_contents(c2, zinfo("maid_policy.py"),
                           PolicyHandlerTemplate(Replace(type)))
    IN  IF c1.err # "none" THEN c1
        ELSE IF c2.err # "none" THEN c2
        ELSE IF c3.err # "none" THEN c3
        ELSE archive_close(c3)

ArchBegin(op) ==
    [arch EXCEPT !.op = op, !.err = "none", !.type = <<>>,
                 !.pre = [_temp_archive_file |-> arch._temp_archive_file,
                          _zip_file |-> arch._zip_file]]

ArchStep(a) ==
    /\ arch' = a
    /\ UNCHANGED <<fn, aliases, rule, targets, last, env, ev>>

Create(modes) ==
    /\ arch.creates < MaxCreate
    /\ ArchStep(archive_create(ArchBegin("create"), modes))

AddContents(dest, type) ==
    ArchStep(add_contents(ArchBegin("add_contents"), zinfo(dest),
                          IF dest = "config.json" THEN <<"policies">>
                          ELSE PolicyHandlerTemplate(Replace(type))))

Close == ArchStep(archive_close(ArchBegin("close")))

Dispose == ArchStep(archive_remove(ArchBegin("remove")))

Size == ArchStep(size(ArchBegin("size")))

GetChecksum == ArchStep(archive_read(ArchBegin("get_checksum")))

GetBytes == ArchStep(archive_read(ArchBegin("get_bytes")))

GetArchive(type, modes) ==
    /\ arch.creates < MaxCreate
    /\ ArchStep(get_archive([ArchBegin("get_archive") EXCEPT !.type = type],
                            type, modes))

NextArchive ==
    \/ \E modes \in [1..2 -> HostModes] : Create(modes)
    \/ \E dest \in Injected, type \in ModeTypes : AddContents(dest, type)
    \/ Close
    \/ Dispose
    \/ Size
    \/ GetChecksum
    \/ GetBytes
    \/ \E type \in ModeTypes, modes \in [1..2 -> HostModes] :
            GetArchive(type, modes)

Spec == Init /\ [][Next]_vars

SpecArchive == InitFail /\ [][NextArchive]_vars

SpecRules == InitFail /\ [][NextRules]_vars

SpecFail == InitFail /\ [][NextFail]_vars

SpecDrift == InitFail /\ [][NextDrift]_vars

(***************************************************************************)
(* Properties.                                                             *)
(***************************************************************************)
Lookups ==
    {"get_function", "get_alias", "describe_rule", "list_targets_by_rule"}

\* C1: a publish that repeats a successful publish of the same unchanged
\* policy, alias and arguments issues no update_function_code, no
\* update_function_configuration and no put_rule.
C1_IdempotentReconcile ==
    (last.op = "publish" /\ last.again) =>
        ~Issued(last.calls, {"update_function_code",
                             "update_function_configuration", "put_rule"})

\* C2: a publish that repeats a successful publish of the same unchanged
\* policy issues lookups only: no mutating call of any kind, the upload of
\* the archive included.
C2_OnlyLookupsOnRepeat ==
    (last.op = "publish" /\ last.again) =>
        \A i \in 1..Len(last.calls) : last.calls[i].op \in Lookups

\* the function, alias, rule and target that publish(policy, alias) is to
\* bring about
Desired(policy, src, alias) ==
    /\ fn.exists
    /\ aliases[alias] # NoAlias
    /\ Snapshot(fn, aliases[alias]) =
           [code |-> get_checksum(policy, src), conf |-> get_config(policy)]
    /\ rule = [exists |-> TRUE, State |-> "ENABLED",
               EventPattern |-> render_event_pattern(policy),
               ScheduleExpression |-> policy.schedule]
    /\ \E i \in 1..Len(targets) : targets[i] = AliasArn(alias)

\* C3: a publish with an alias that repeats a publish aborted by a provider
\* failure, and in which the provider fails no call, completes without error
\* and leaves function, alias, rule and target as desired.
C3_RerunRecovers ==
    (/\ last.op = "publish" /\ last.retry /\ last.alias # None
     /\ \A i \in 1..Len(last.calls) : last.calls[i].res # Throttled)
    => (last.err = "none" /\ Desired(last.policy, last.src, last.alias))

\* C4: a publish that differs from the successful publish before it only in
\* the Timeout of the policy's mode issues update_function_configuration and
\* no update_function_code.
C4_TimeoutIsConfigOnly ==
    (last.op = "publish" /\ last.timeoutOnly) =>
        /\ Issued(last.calls, {"update_function_configuration"})
        /\ ~Issued(last.calls, {"update_function_code"})

FunctionOps ==
    {"get_function", "upload_file", "create_function", "update_function_code",
     "update_function_configuration"}

AliasOps == {"get_alias", "create_alias", "update_alias"}

\* every remote call before the i-th of the last call returned, or reported
\* absence to a lookup
CompletedBefore(i) ==
    \A j \in 1..(i - 1) :
        \/ last.calls[j].res = "ok"
        \/ last.calls[j].res = NotFound /\ last.calls[j].op \in Lookups

\* C5: in publish, a put_rule or put_targets is issued only after the
\* function lookup and create/update and, with an alias, the alias publish
\* have completed without failure, and the function (and alias) then exist;
\* in remove, delete_function is issued only after the unbind has completed
\* without failure, so that no rule is left, and never after a failed unbind.
C5_BindingOrder ==
    /\ last.op = "publish" =>
         \A i \in 1..Len(last.calls) :
            last.calls[i].op \in {"put_rule", "put_targets"} =>
                /\ CompletedBefore(i)
                /\ \E j \in 1..(i - 1) : last.calls[j].op = "get_function"
                /\ last.alias # None =>
                      \E j \in 1..(i - 1) : last.calls[j].op = "get_alias"
                /\ \A j \in (i + 1)..Len(last.calls) :
                      last.calls[j].op \notin FunctionOps \cup AliasOps
                /\ fn.exists
                /\ last.alias # None => aliases[last.alias] # NoAlias
    /\ last.op = "remove" =>
         \A i \in 1..Len(last.calls) :
            last.calls[i].op = "delete_function" =>
                /\ i = Len(last.calls)
                /\ CompletedBefore(i)
                /\ \E j \in 1..(i - 1) : last.calls[j].op = "describe_rule"
                /\ ~rule.exists

\* C5 witness: a publish that a provider failure aborted at put_targets,
\* after the function update, the alias publish and put_rule
C5_Witness ==
    /\ last.op = "publish" /\ last.err = Throttled /\ last.alias # None
    /\ Done(last.calls, {"put_rule"})
    /\ Issued(last.calls, {"put_targets"})

\* C6: a remove of a function that does not exist remotely (delete_function
\* answers not-found) completes without error.
C6_RemoveAbsentFunction ==
    (/\ last.op = "remove"
     /\ \E i \in 1..Len(last.calls) :
           last.calls[i] = [op |-> "delete_function", res |-> NotFound])
    => last.err = "none"

\* C7: pause, resume and unbind on an absent rule complete without error,
\* and delete_rule is issued only when the rule lookup just before it found
\* the rule.
C7_AbsentRuleTolerated ==
    /\ (/\ last.op \in {"pause", "resume"}
        /\ last.calls = <<[op |-> IF last.op = "pause" THEN "disable_rule"
                                  ELSE "enable_rule", res |-> NotFound]>>)
       => last.err = "none"
    /\ (/\ last.op = "unbind"
        /\ last.calls[1] = [op |-> "describe_rule", res |-> NotFound])
       => (last.err = "none" /\ ~Issued(last.calls, {"delete_rule"}))
    /\ last.op \in {"unbind", "remove"} =>
         \A i \in 1..Len(last.calls) :
            last.calls[i].op = "delete_rule" =>
                i > 1 /\ last.calls[i - 1] = [op |-> "describe_rule",
                                              res |-> "ok"]

\* C7 witness: an unbind that found no rule
C7_Witness ==
    /\ last.op = "unbind"
    /\ last.calls = <<[op |-> "describe_rule", res |-> NotFound]>>
    /\ last.err = "none"

\* C8: a provider failure other than not-found during pause or resume
\* reaches the caller.
C8_PauseResumePropagate ==
    (/\ last.op \in {"pause", "resume"}
     /\ \E i \in 1..Len(last.calls) :
           last.calls[i].res \in ClientErrors \ {NotFound})
    => last.err # "none"

\* C9: a publish of a policy with an unrecognized mode type, or with no role
\* given in the policy or the call, raises before any mutating remote call.
C9_ConfigErrorFirst ==
    (/\ last.op = "publish"
     /\ \/ last.policy.type \notin KnownTypes
        \/ PolicyLambdaRole(last.policy) = Unset /\ last.role = Unset)
    => (/\ last.err \in {"ValueError", "AssertionError"}
        /\ \A i \in 1..Len(last.calls) : last.calls[i].op \in Lookups)

\* C10: after a successful publish the rule has exactly one target, and its
\* Arn is the Arn of the alias just published.
C10_SingleTarget ==
    (last.op = "publish" /\ last.err = "none") =>
        targets = <<AliasArn(last.alias)>>

\* C10 witness: a successful publish that moved the alias to a new version
\* while the rule already had its target
C10_Witness ==
    /\ last.op = "publish" /\ last.err = "none"
    /\ Done(last.calls, {"update_alias"})
    /\ ~Issued(last.calls, {"put_targets"})
    /\ targets = <<AliasArn(last.alias)>>

\* C11: every remote call of an event source about its rule carries the
\* name the describe_rule lookup addresses, and that name is the prefix
\* followed by the function's name (the name itself when it already starts
\* with the prefix).
C11_RuleIdentity ==
    ev.op \in {"add", "remove"} =>
        \A i \in 1..Len(ev.calls) :
            /\ ev.calls[i].name = ev.calls[1].name
            /\ ev.calls[1].op = "describe_rule"
            /\ ev.calls[1].name =
                   IF StartsWith(ev.owner, ev.prefix) THEN ev.owner
                   ELSE ev.prefix \o ev.owner

\* C12: the event source's add, at the end of a publish that completes,
\* returns true exactly when it issued a mutating call (put_rule or
\* put_targets), and a false value exactly when it issued none.
C12_AddReportsChange ==
    (last.op = "publish" /\ last.err = "none") =>
        (last.added <=> Issued(last.calls, {"put_rule", "put_targets"}))

\* C13: for every mode type that event-pattern construction accepts, the
\* entry point get_archive generates forwards to a *_handle function that the
\* module defines.
C13_EntryPointResolves ==
    (arch.op = "get_archive" /\ arch.err = "none") =>
        /\ arch.entries["maid_policy.py"].present
        /\ arch.entries["maid_policy.py"].body \in Handlers

\* C14: the archive's lifecycle is strict: add_contents succeeds only on a
\* created archive that is not sealed; size, get_checksum and get_bytes
\* succeed only while the current archive file is sealed and not disposed;
\* create succeeds at most once.
C14_StrictLifecycle ==
    /\ (arch.op = "add_contents" /\ arch.err = "none") =>
            arch.pre._zip_file = "open"
    /\ (arch.op \in {"size", "get_checksum", "get_bytes"}
            /\ arch.err = "none") =>
            arch.pre._temp_archive_file /\ arch.pre._zip_file = "closed"
    /\ arch.creates <= 1

\* C15: every entry of a sealed archive carries world-readable permission
\* bits, whatever the bits of the host files were.
C15_WorldReadable ==
    (arch._zip_file = "closed" /\ arch._temp_archive_file) =>
        \A n \in DOMAIN arch.entries :
            arch.entries[n].present => arch.entries[n].external_attr = "0644"

\* the function lookup of the last publish returned or reported absence
LookedUp ==
    /\ last.op = "publish"
    /\ Len(last.calls) >= 1
    /\ last.calls[1].op = "get_function"
    /\ last.calls[1].res \in {"ok", NotFound}

\* C16: a publish whose lookup completes issues create_function if and only
\* if no function of that name exists at the provider, whatever alias is
\* requested.
C16_CreateIffAbsent ==
    LookedUp =>
        (Issued(last.calls, {"create_function"}) <=> ~last.existed)

\* some call of ops was issued and did not return
Failed(calls, ops) ==
    \E i \in 1..Len(calls) : calls[i].op \in ops /\ calls[i].res # "ok"

\* the last publish found the function and reached the comparison
Compared ==
    /\ LookedUp
    /\ last.calls[1].res = "ok"
    /\ ~Failed(last.calls, {"upload_file"})

\* C17: on a function the lookup found, update_function_code is issued if
\* and only if the archive's checksum differs from the record's CodeSha256,
\* and (unless the code update raised) update_function_configuration if and
\* only if a field of the desired configuration differs from the record's;
\* neither decision depends on the other.
C17_TwoAxisDiff ==
    Compared =>
        /\ Issued(last.calls, {"update_function_code"}) <=> last.codeDiffers
        /\ ~Failed(last.calls, {"update_function_code"}) =>
              (Issued(last.calls, {"update_function_configuration"})
                  <=> last.confDiffers)
        /\ ~Issued(last.calls, {"create_function"})

C17_Witness ==
    /\ Compared
    /\ last.confDiffers /\ ~last.codeDiffers
    /\ Issued(last.calls, {"update_function_configuration"})
    /\ ~Issued(last.calls, {"update_function_code"})

\* C18: after a publish with an alias that completes and in which the
\* function was created or a code update published a new version, the alias
\* points at that newly published version, also when a configuration update
\* followed the code update in the same pass.
C18_AliasFollowsPublished ==
    (last.op = "publish" /\ last.err = "none" /\ last.alias # None
        /\ last.published.exists) =>
        aliases[last.alias] = last.published

\* what the alias lookup of the last publish returned
GetAliasRes ==
    LET i == CHOOSE i \in 1..Len(last.calls) : last.calls[i].op = "get_alias"
    IN  last.calls[i].res

AliasMutations ==
    {i \in 1..Len(last.calls) :
        last.calls[i].op \in {"create_alias", "update_alias"}}

\* C19: publish_alias issues create_alias if and only if the alias lookup
\* reports absence, update_alias if and only if the alias exists and its
\* FunctionVersion differs from the Version of the function record it is
\* given, and no alias mutation when the alias already points at that
\* version; it issues at most one alias mutation, and whenever it returns,
\* it returns the alias's ARN.
C19_AliasDecision ==
    (last.op = "publish" /\ Issued(last.calls, {"get_alias"})) =>
        /\ Issued(last.calls, {"create_alias"}) <=> GetAliasRes = NotFound
        /\ Issued(last.calls, {"update_alias"}) <=>
              (GetAliasRes = "ok" /\ last.aliasBefore # last.version)
        /\ Cardinality(AliasMutations) <= 1
        /\ (GetAliasRes \in {"ok", NotFound}
               /\ ~Failed(last.calls, {"create_alias", "update_alias"})) =>
              last.funcAlias = AliasArn(last.alias)

C19_Witness ==
    /\ last.op = "publish" /\ Issued(last.calls, {"get_alias"})
    /\ GetAliasRes = "ok" /\ last.aliasBefore = last.version
    /\ AliasMutations = {}
    /\ last.funcAlias = AliasArn(last.alias)

\* the lookups made through resource_exists
ResourceLookups == {"get_function", "get_alias", "describe_rule"}

\* C20: a lookup through resource_exists that fails with anything but the
\* not-found error ends the call with that error, and no mutating call is
\* issued after it; a not-found answer is reported as absence, on which a
\* publish goes on.
C20_LookupFailure ==
    \A i \in 1..Len(last.calls) :
        last.calls[i].op \in ResourceLookups =>
            /\ last.calls[i].res \notin {"ok", NotFound} =>
                  /\ last.err = last.calls[i].res
                  /\ \A j \in (i + 1)..Len(last.calls) :
                        last.calls[j].op \notin Mutations
            /\ (last.calls[i].res = NotFound /\ last.op = "publish") =>
                  /\ i < Len(last.calls)
                  /\ last.calls[i + 1].op \in Mutations

C20_Witness ==
    /\ last.op = "publish"
    /\ Done(last.calls, {"create_function"})
    /\ Issued(last.calls, {"get_alias"})
    /\ GetAliasRes = Throttled
    /\ last.err = Throttled
    /\ last.calls[Len(last.calls)].op = "get_alias"

\* what the rule lookup of the last call returned
DescribeRuleRes ==
    LET i == CHOOSE i \in 1..Len(last.calls) :
                 last.calls[i].op = "describe_rule"
    IN  last.calls[i].res

PutRules == {i \in 1..Len(last.calls) : last.calls[i].op = "put_rule"}

\* the existing rule differs from the one the policy asks for
RuleDiffers(existing, policy) ==
    \/ existing.State # "ENABLED"
    \/ existing.EventPattern # render_event_pattern(policy)
    \/ existing.ScheduleExpression # policy.schedule

\* C21: the add of a publish issues exactly one put_rule when the rule is
\* absent, exactly one when the rule exists and its State, EventPattern or
\* ScheduleExpression differs from the desired rule's, and none when the rule
\* exists and none of the three differs; a disabled rule is enabled again.
C21_RuleDiff ==
    (last.op = "publish" /\ Issued(last.calls, {"describe_rule"})
        /\ DescribeRuleRes \in {"ok", NotFound}) =>
        /\ Cardinality(PutRules) =
              IF DescribeRuleRes = NotFound THEN 1
              ELSE IF RuleDiffers(last.ruleBefore, last.policy) THEN 1
              ELSE 0
        /\ (DescribeRuleRes = "ok" /\ last.ruleBefore.State = "DISABLED") =>
              /\ Issued(last.calls, {"put_rule"})
              /\ Done(last.calls, {"put_rule"}) => rule.State = "ENABLED"

\* C21 witness: a publish that found the rule disabled, differing in nothing
\* else, and enabled it
C21_Witness ==
    /\ last.op = "publish" /\ Issued(last.calls, {"describe_rule"})
    /\ DescribeRuleRes = "ok"
    /\ last.ruleBefore.State = "DISABLED"
    /\ last.ruleBefore.EventPattern = render_event_pattern(last.policy)
    /\ last.ruleBefore.ScheduleExpression = last.policy.schedule
    /\ Done(last.calls, {"put_rule"})
    /\ rule.State = "ENABLED"

\* C22: add issues put_targets if and only if no target of the rule has
\* the target identifier as its Arn, so that after every add that completes
\* the rule has a target whose Arn equals the target identifier.
C22_TargetReconciled ==
    (ev.op = "add" /\ ev.err = "none") => ev.arn \in ev.targeted[ev.owner]

\* C23: every put_rule a publish issues, for a policy of a recognized mode
\* type, carries an EventPattern or a ScheduleExpression (or both); for
\* periodic it carries no EventPattern and the mode's schedule.
C23_UpsertHasTrigger ==
    (last.op = "publish" /\ Issued(last.calls, {"put_rule"})
        /\ last.policy.type \in KnownTypes) =>
        LET params == rule_params(last.policy)
        IN  /\ \/ params.EventPattern # NoPattern
               \/ params.ScheduleExpression # ""
            /\ last.policy.type = "periodic" =>
                  /\ params.EventPattern = NoPattern
                  /\ params.ScheduleExpression = last.policy.schedule

\* the pattern the class documentation gives for instance state events
DocumentedInstanceStatePattern(events) ==
    [source |-> <<"aws.ec2">>,
     detailType |-> <<"EC2 Instance State-change Notification">>,
     detail |-> <<<<"state", events>>>>]

\* C24: the rule a publish puts for an ec2-instance-state policy has the
\* pattern the class documentation gives, with exactly its detail-type.
C24_DocumentedPattern ==
    (last.op = "publish" /\ Done(last.calls, {"put_rule"})
        /\ last.policy.type = "ec2-instance-state") =>
        rule.EventPattern =
            DocumentedInstanceStatePattern(last.policy.events)

\* C25: in every publish, with or without an alias, the event source's add
\* works with a defined target identifier: no comparison against None, no
\* put_targets with a None Arn.
C25_TargetDefined ==
    (last.op = "publish" /\ Done(last.calls, {"list_targets_by_rule"})) =>
        /\ last.funcAlias # None
        /\ last.err \notin {"TypeError", "ParamValidationError"}

====
